---- MODULE Spec2Model ----
(***************************************************************************)
(* Rentago: listing / transaction lifecycle.                               *)
(*                                                                         *)
(* The remote tables (items, conversations, transactions, messages) are    *)
(* the shared store.  Every browser tab shows one page; a page keeps the   *)
(* rows it loaded in React state (viewerId, convo, item, tx) and decides   *)
(* which buttons exist from that local copy.  A handler is one action: it  *)
(* issues its writes in source order, each write succeeding or failing,    *)
(* and ends with the reloads the source performs.                          *)
(***************************************************************************)
EXTENDS Integers, Sequences, FiniteSets, TLC

\* ---------------------------------------------------------------- bounds
MaxTx == 2        \* rows the transactions table may hold
MaxMsgs == 3      \* rows the messages table may hold
MaxConvs == 3     \* rows the conversations table may hold
MaxClock == 3     \* how far the server's clock runs

\* ------------------------------------------------------------ the actors
Viewers == {"u1", "u2"}
ItemOwner == "u1"
ItemIds == {"i1"}
Tabs == {"t1", "t2"}

Reviewers == {"u1", "u2", "u3"}      \* the owner and two buyers
ClientTimes == {1, 2}                \* what new Date() gives a browser: the
                                     \* server's time or a clock that runs ahead
Ratings == {1, 5}                    \* what a review form submits
ListingTypes == {"rent", "sell"}
ItemStatuses == {"available", "reserved", "rented", "sold"}

VARIABLES
    items,          \* items table: ItemIds -> row
    conversations,  \* conversations table, id = index
    transactions,   \* transactions table, id = index, in created_at order
    messages,       \* messages table, in insertion order
    clock,          \* wall clock (new Date()); 0 is kept for a null timestamp
    item_reviews,   \* item_reviews table, one row per (item_id, reviewer_id)
    user_reviews,   \* user_reviews table, one row per (reviewer_id, reviewed_user_id)
    tabs,           \* Tabs -> the page a browser tab shows and its React state
    convo_read_at   \* the browser's localStorage rentago:convo_read_at:<user>:
                    \* <<user, conversation>> -> the time read up to

vars == <<items, conversations, transactions, messages, clock, item_reviews, user_reviews, tabs,
          convo_read_at>>

\* ------------------------------------------------------- absent values
NoItem == [id |-> "none", owner_id |-> "none", listing_type |-> "none", status |-> "none"]
\* What a deleted row leaves in its place: row numbers are the rows' ids,
\* and a deleted row answers no query.
DeletedTx == [conversation_id |-> 0, item_id |-> "none", buyer_id |-> "none",
              seller_id |-> "none", type |-> "none", status |-> "deleted", completed_at |-> 0]
DeletedMsg == [conversation_id |-> 0, sender_id |-> "none", body |-> "deleted", created_at |-> 0]
DeletedConv == [item_id |-> "deleted", user_a |-> "none", user_b |-> "none",
                last_message_at |-> 0]
NoTx == [id |-> 0, status |-> "none", type |-> "none", buyer_id |-> "none", seller_id |-> "none"]
\* step: where the page's running handler stands, <<>> when none is running;
\* profileId: the profile a profile page shows; canReview: the page's review
\* gate (canReviewItem, eligible, eligibleForUserReview); reviewMsg: the
\* line a review form shows under itself (reviewMsg, msg), "none" for null
BlankTab ==
    [page |-> "none", viewerId |-> "none", convo |-> 0, item |-> NoItem, tx |-> NoTx,
     step |-> <<>>, profileId |-> "none", canReview |-> FALSE, reviewMsg |-> "none"]

\* ---------------------------------------------------------- store reads
Max(S) == CHOOSE x \in S : \A y \in S : y <= x

\* lastAt of reloadMessages: created_at of the last row of the list ordered
\* by created_at, 0 when the conversation has no message.
lastAt(msgs, convoId) ==
    LET ats == {msgs[k].created_at : k \in {j \in DOMAIN msgs : msgs[j].conversation_id = convoId}}
    IN  IF ats = {} THEN 0 ELSE Max(ats)

\* ---------------------------------------------------------- read marks
NoReadMarks == [p \in {} |-> 0]

\* readConversationReadMap(userId)[conversationId], 0 when there is no entry
readAt(map, userId, conversationId) ==
    IF <<userId, conversationId>> \in DOMAIN map THEN map[<<userId, conversationId>>] ELSE 0

\* markConversationRead: map[conversationId] = atIso
markConversationRead(map, userId, conversationId, at) ==
    [p \in DOMAIN map \cup {<<userId, conversationId>>} |->
        IF p = <<userId, conversationId>> THEN at ELSE map[p]]

\* isConversationUnread
isConversationUnread(map, userId, conversationId, lastMessageAt) ==
    IF lastMessageAt = 0 THEN FALSE
    ELSE IF readAt(map, userId, conversationId) = 0 THEN TRUE
    ELSE lastMessageAt > readAt(map, userId, conversationId)

\* The tail of reloadMessages: the mark it leaves once the list is loaded.
markLoaded(map, viewerId, convoId, msgs) ==
    IF viewerId # "none" /\ convoId # 0 /\ lastAt(msgs, convoId) # 0
    THEN markConversationRead(map, viewerId, convoId, lastAt(msgs, convoId))
    ELSE map

\* select id, owner_id, listing_type, status from items where id = itemId
reloadItem(its, itemId) ==
    IF itemId \in DOMAIN its
    THEN [id |-> itemId, owner_id |-> its[itemId].owner_id,
          listing_type |-> its[itemId].listing_type, status |-> its[itemId].status]
    ELSE NoItem

\* latest transaction of the conversation (order created_at desc, limit 1)
reloadTx(txs, conversationId) ==
    LET ids == {i \in DOMAIN txs : txs[i].conversation_id = conversationId}
    IN  IF ids = {} THEN NoTx
        ELSE LET i == Max(ids)
             IN  [id |-> i, status |-> txs[i].status, type |-> txs[i].type,
                  buyer_id |-> txs[i].buyer_id, seller_id |-> txs[i].seller_id]

\* conversations where item_id = itemId and {user_a, user_b} = {a, b}
findConversation(convs, itemId, a, b) ==
    {c \in DOMAIN convs :
        /\ convs[c].item_id = itemId
        /\ \/ (convs[c].user_a = a /\ convs[c].user_b = b)
           \/ (convs[c].user_a = b /\ convs[c].user_b = a)}

\* ---------------------------------------------------------- review gates
\* transactions where item_id = itemId, status = completed,
\* buyer_id = viewerId or seller_id = viewerId
canLeaveItemReview(txs, viewerId, itemId) ==
    \E i \in DOMAIN txs :
        /\ txs[i].item_id = itemId
        /\ txs[i].status = "completed"
        /\ (txs[i].buyer_id = viewerId \/ txs[i].seller_id = viewerId)

\* The gate asking for the viewer as buyer only.
canLeaveUserReview_buyerOnly(txs, viewerId, reviewedUserId) ==
    \E i \in DOMAIN txs :
        /\ txs[i].status = "completed"
        /\ txs[i].buyer_id = viewerId /\ txs[i].seller_id = reviewedUserId

\* transactions where status = completed and (buyer, seller) is
\* (viewerId, reviewedUserId) or (reviewedUserId, viewerId)
canLeaveUserReview(txs, viewerId, reviewedUserId) ==
    \E i \in DOMAIN txs :
        /\ txs[i].status = "completed"
        /\ \/ (txs[i].buyer_id = viewerId /\ txs[i].seller_id = reviewedUserId)
           \/ (txs[i].buyer_id = reviewedUserId /\ txs[i].seller_id = viewerId)

\* The gate without the returned-item condition.
loadItemReviews_anyStatus(txs, revs, itemId, currentViewerId, currentItem) ==
    /\ currentItem.listing_type = "rent"
    /\ \E i \in DOMAIN txs :
          /\ txs[i].item_id = itemId /\ txs[i].type = "rent"
          /\ txs[i].status = "completed" /\ txs[i].buyer_id = currentViewerId
    /\ ~\E k \in DOMAIN revs :
           revs[k].item_id = itemId /\ revs[k].reviewer_id = currentViewerId

\* loadItemReviews: the value it leaves in canReviewItem.
loadItemReviews(txs, revs, itemId, currentViewerId, currentItem) ==
    IF currentItem.listing_type # "rent" THEN FALSE
    ELSE IF currentViewerId = "none" THEN FALSE
    ELSE LET hasCompletedRent ==
                 \E i \in DOMAIN txs :
                     /\ txs[i].item_id = itemId
                     /\ txs[i].type = "rent"
                     /\ txs[i].status = "completed"
                     /\ txs[i].buyer_id = currentViewerId
             hasAlreadyReviewed ==
                 \E k \in DOMAIN revs :
                     revs[k].item_id = itemId /\ revs[k].reviewer_id = currentViewerId
         IN  hasCompletedRent /\ currentItem.status = "available" /\ ~hasAlreadyReviewed

\* --------------------------------------------------------- store writes
\* An update that the store refuses once the row is cancelled.
updateTxStatus_guarded(txs, id, st) ==
    IF id \in DOMAIN txs /\ txs[id].status # "cancelled"
    THEN [txs EXCEPT ![id].status = st] ELSE txs

\* update transactions set status = st where id = id
updateTxStatus(txs, id, st) ==
    IF id \in DOMAIN txs /\ txs[id] # DeletedTx THEN [txs EXCEPT ![id].status = st] ELSE txs

\* update items set status = st where id = itemId
updateItemStatus(its, itemId, st) ==
    IF itemId \in DOMAIN its THEN [its EXCEPT ![itemId].status = st] ELSE its

\* insert into messages (conversation_id, sender_id, body)
insertMessage(msgs, conversationId, senderId, body, at) ==
    Append(msgs, [conversation_id |-> conversationId, sender_id |-> senderId,
                  body |-> body, created_at |-> at])

\* update conversations set last_message_at = at where id = conversationId
touchConversation(convs, conversationId, at) ==
    IF conversationId \in DOMAIN convs /\ convs[conversationId] # DeletedConv
    THEN [convs EXCEPT ![conversationId].last_message_at = at] ELSE convs

\* A chat page as init() leaves it: conversation, item, latest transaction.
chatPage(viewer, c, its, convs, txs) ==
    [page |-> "chat", viewerId |-> viewer, convo |-> c,
     item |-> reloadItem(its, convs[c].item_id),
     tx |-> reloadTx(txs, c), step |-> <<>>, profileId |-> "none", canReview |-> FALSE, reviewMsg |-> "none"]

\* ------------------------------------------------------------------ Init
\* One listing as the post page inserts it: status available.
Init ==
    /\ \E lt \in ListingTypes :
          items = [i \in ItemIds |->
                     [owner_id |-> ItemOwner, listing_type |-> lt, status |-> "available"]]
    /\ conversations = <<>>
    /\ transactions = <<>>
    /\ messages = <<>>
    /\ clock = 1
    /\ convo_read_at = NoReadMarks
    /\ item_reviews = <<>>
    /\ user_reviews = <<>>
    /\ tabs = [t \in Tabs |-> BlankTab]

\* The store as it is once a buyer has contacted the owner about the listing
\* (messageOwner inserts the conversation and no message).
InitChat ==
    /\ \E lt \in ListingTypes :
          items = [i \in ItemIds |->
                     [owner_id |-> ItemOwner, listing_type |-> lt, status |-> "available"]]
    /\ conversations = <<[item_id |-> "i1", user_a |-> "u2", user_b |-> ItemOwner,
                          last_message_at |-> 1]>>
    /\ transactions = <<>>
    /\ messages = <<>>
    /\ clock = 1
    /\ convo_read_at = NoReadMarks
    /\ item_reviews = <<>>
    /\ user_reviews = <<>>
    /\ tabs = [t \in Tabs |-> BlankTab]

\* ------------------------------------------------------------ item page
\* ItemDetailPage load(): session user and the item row.
OpenItemPage(t, viewer, itemId) ==
    /\ tabs' = [tabs EXCEPT ![t] =
                  [BlankTab EXCEPT !.page = "item", !.viewerId = viewer,
                                   !.item = reloadItem(items, itemId),
                                   !.canReview =
                                       loadItemReviews(transactions, item_reviews, itemId,
                                                       viewer, reloadItem(items, itemId))]]
    /\ UNCHANGED <<items, conversations, transactions, messages, clock, convo_read_at, item_reviews, user_reviews>>


\* openChatAndSendPreset: get or create the conversation with the owner,
\* insert the preset message, touch the conversation, go to the chat.
\* maybeSingle() yields a row only when exactly one row matches.
openChatEffect(tab, okConv, okMsg, okTouch) ==
    LET found == findConversation(conversations, tab.item.id, tab.viewerId, tab.item.owner_id)
        existing == IF Cardinality(found) = 1 THEN CHOOSE c \in found : TRUE ELSE 0
        created == Len(conversations) + 1
        convoId == IF existing # 0 THEN existing ELSE IF okConv THEN created ELSE 0
        convs1 == IF existing = 0 /\ okConv
                  THEN Append(conversations,
                              [item_id |-> tab.item.id, user_a |-> tab.viewerId,
                               user_b |-> tab.item.owner_id, last_message_at |-> clock])
                  ELSE conversations
    IN  IF convoId = 0
        THEN [conversations |-> conversations, messages |-> messages, convoId |-> 0]
        ELSE [convoId |-> convoId,
              conversations |-> IF okTouch THEN touchConversation(convs1, convoId, clock)
                                ELSE convs1,
              messages |-> IF okMsg
                           THEN insertMessage(messages, convoId, tab.viewerId, "preset", clock)
                           ELSE messages]

openChatAndSendPreset(t, okConv, okMsg, okTouch) ==
    /\ tabs[t].page = "item"
    /\ tabs[t].item # NoItem
    /\ tabs[t].viewerId # tabs[t].item.owner_id          \* button hidden for the owner
    /\ LET e == openChatEffect(tabs[t], okConv, okMsg, okTouch)
       IN  /\ conversations' = e.conversations
           /\ messages' = e.messages
           /\ tabs' = IF e.convoId = 0 THEN tabs ELSE [tabs EXCEPT ![t] = BlankTab]
    /\ UNCHANGED <<items, transactions, clock, convo_read_at, item_reviews, user_reviews>>

\* markReturned: the guards read the page's own copy of the item.
markReturnedAllowed(tab) ==
    /\ tab.item # NoItem
    /\ tab.viewerId = tab.item.owner_id
    /\ tab.item.listing_type = "rent"
    /\ tab.item.status = "rented"

markReturnedEffect(tab, ok) ==
    IF ok THEN updateItemStatus(items, tab.item.id, "available") ELSE items

markReturned(t, ok) ==
    /\ tabs[t].page = "item"
    /\ markReturnedAllowed(tabs[t])
    /\ items' = markReturnedEffect(tabs[t], ok)
    /\ tabs' = IF ok
               THEN LET nextItem == [tabs[t].item EXCEPT !.status = "available"]
                    IN  [tabs EXCEPT ![t].item = nextItem,
                                     ![t].canReview =
                                         loadItemReviews(transactions, item_reviews, nextItem.id,
                                                         tabs[t].viewerId, nextItem)]
               ELSE tabs
    /\ UNCHANGED <<conversations, transactions, messages, clock, convo_read_at, item_reviews, user_reviews>>

\* ------------------------------------------------------------- reviews
\* upsert(..., { onConflict: "item_id,reviewer_id" })
upsertItemReview(revs, itemId, reviewerId, rating) ==
    LET hit == {k \in DOMAIN revs : revs[k].item_id = itemId /\ revs[k].reviewer_id = reviewerId}
    IN  IF hit = {}
        THEN Append(revs, [item_id |-> itemId, reviewer_id |-> reviewerId, rating |-> rating])
        ELSE [k \in DOMAIN revs |-> IF k \in hit THEN [revs[k] EXCEPT !.rating = rating]
                                    ELSE revs[k]]

\* insert(...): the unique key the upsert relies on rejects a second row for
\* the pair, and the table stays as it was.
insertItemReview(revs, itemId, reviewerId, rating) ==
    IF \E k \in DOMAIN revs : revs[k].item_id = itemId /\ revs[k].reviewer_id = reviewerId
    THEN revs
    ELSE Append(revs, [item_id |-> itemId, reviewer_id |-> reviewerId, rating |-> rating])

\* upsert(payload, { onConflict: "reviewer_id,reviewed_user_id" })
upsertUserReview(revs, reviewerId, reviewedUserId, rating) ==
    LET hit == {k \in DOMAIN revs :
                   revs[k].reviewer_id = reviewerId /\ revs[k].reviewed_user_id = reviewedUserId}
    IN  IF hit = {}
        THEN Append(revs, [reviewer_id |-> reviewerId, reviewed_user_id |-> reviewedUserId,
                           rating |-> rating])
        ELSE [k \in DOMAIN revs |-> IF k \in hit THEN [revs[k] EXCEPT !.rating = rating]
                                    ELSE revs[k]]

\* submitItemReview (item page): the form exists while canReviewItem.
submitItemReviewEffect(tab, rating, ok) ==
    IF ok THEN upsertItemReview(item_reviews, tab.item.id, tab.viewerId, rating)
    ELSE item_reviews

submitItemReview(t, rating, ok) ==
    /\ tabs[t].page = "item"
    /\ tabs[t].item # NoItem /\ tabs[t].viewerId # "none" /\ tabs[t].canReview
    /\ item_reviews' = submitItemReviewEffect(tabs[t], rating, ok)
    /\ tabs' = IF ok
               THEN [tabs EXCEPT ![t].reviewMsg = "none",
                                 ![t].canReview =
                        loadItemReviews(transactions, item_reviews', tabs[t].item.id,
                                        tabs[t].viewerId, tabs[t].item)]
               ELSE [tabs EXCEPT ![t].reviewMsg = "error"]
    /\ UNCHANGED <<items, conversations, transactions, messages, clock, convo_read_at, user_reviews>>

\* The other item page (app/items/[id]/page.tsx): load() asks
\* canLeaveItemReview, submitReview inserts.
OpenItemDetailPage(t, viewer, itemId) ==
    /\ tabs' = [tabs EXCEPT ![t] =
                  [BlankTab EXCEPT !.page = "itemDetail", !.viewerId = viewer,
                                   !.item = reloadItem(items, itemId),
                                   !.canReview = canLeaveItemReview(transactions, viewer, itemId)]]
    /\ UNCHANGED <<items, conversations, transactions, messages, clock, convo_read_at, item_reviews, user_reviews>>

submitReviewEffect(tab, rating, ok) ==
    IF ok THEN insertItemReview(item_reviews, tab.item.id, tab.viewerId, rating)
    ELSE item_reviews

\* The error the insert comes back with: the write failed, or the pair has
\* a row already.
submitReviewError(tab, ok) ==
    \/ ~ok
    \/ \E k \in DOMAIN item_reviews :
          item_reviews[k].item_id = tab.item.id /\ item_reviews[k].reviewer_id = tab.viewerId

submitReview(t, rating, ok) ==
    /\ tabs[t].page = "itemDetail"
    /\ tabs[t].canReview                                 \* the form is shown when eligible
    /\ tabs[t].viewerId # "none" /\ tabs[t].item # NoItem
    /\ item_reviews' = submitReviewEffect(tabs[t], rating, ok)
    /\ tabs' = [tabs EXCEPT ![t].reviewMsg = IF submitReviewError(tabs[t], ok) THEN "error"
                                             ELSE "Review submitted."]
    /\ UNCHANGED <<items, conversations, transactions, messages, clock, convo_read_at, user_reviews>>

\* PublicProfilePage load(): eligibility for a user review.
OpenProfilePage(t, viewer, profileId) ==
    /\ tabs' = [tabs EXCEPT ![t] =
                  [BlankTab EXCEPT !.page = "profile", !.viewerId = viewer,
                                   !.profileId = profileId,
                                   !.canReview =
                                       canLeaveUserReview(transactions, viewer, profileId)]]
    /\ UNCHANGED <<items, conversations, transactions, messages, clock, convo_read_at, item_reviews, user_reviews>>

isSelf(tab) == tab.viewerId # "none" /\ tab.profileId # "none" /\ tab.viewerId = tab.profileId

\* saveReview without the check on one's own profile.
saveReviewEffect_noSelfCheck(tab, rating, ok) ==
    IF tab.viewerId = "none" \/ tab.profileId = "none"
    THEN user_reviews
    ELSE IF ok THEN upsertUserReview(user_reviews, tab.viewerId, tab.profileId, rating)
         ELSE user_reviews

\* saveReview: not logged in, no profile, or one's own profile: no write.
saveReviewEffect(tab, rating, ok) ==
    IF tab.viewerId = "none" \/ tab.profileId = "none" \/ tab.viewerId = tab.profileId
    THEN user_reviews
    ELSE IF ok THEN upsertUserReview(user_reviews, tab.viewerId, tab.profileId, rating)
         ELSE user_reviews

\* The editor opens from the review button (not self, eligible) and is shown
\* while eligibleForUserReview; a saved review ends with load().
saveReview(t, rating, ok) ==
    /\ tabs[t].page = "profile"
    /\ ~isSelf(tabs[t]) /\ tabs[t].viewerId # "none" /\ tabs[t].canReview
    /\ user_reviews' = saveReviewEffect(tabs[t], rating, ok)
    /\ tabs' = IF ok
               THEN [tabs EXCEPT ![t].reviewMsg = "none",
                                 ![t].canReview =
                        canLeaveUserReview(transactions, tabs[t].viewerId, tabs[t].profileId)]
               ELSE [tabs EXCEPT ![t].reviewMsg = "error"]
    /\ UNCHANGED <<items, conversations, transactions, messages, clock, convo_read_at, item_reviews>>

\* ------------------------------------------------------- listing editor
\* EditItemPage load(): the item row; the form starts from it.
OpenEditPage(t, viewer, itemId) ==
    /\ tabs' = [tabs EXCEPT ![t] =
                  [BlankTab EXCEPT !.page = "edit", !.viewerId = viewer,
                                   !.item = reloadItem(items, itemId)]]
    /\ UNCHANGED <<items, conversations, transactions, messages, clock, convo_read_at, item_reviews, user_reviews>>

\* save(): the payload carries the listing_type the page loaded (the form has
\* no control for it) and the status selected in the Status <select>.
saveEffect(tab, status, ok) ==
    IF ok /\ tab.item.id \in DOMAIN items
    THEN [items EXCEPT ![tab.item.id].listing_type = tab.item.listing_type,
                       ![tab.item.id].status = status]
    ELSE items

save(t, status, ok) ==
    /\ tabs[t].page = "edit"
    /\ tabs[t].item # NoItem
    /\ IF tabs[t].item.owner_id # tabs[t].viewerId
       THEN UNCHANGED <<items, tabs>>                     \* "Not allowed."
       ELSE /\ items' = saveEffect(tabs[t], status, ok)
            /\ tabs' = IF ok THEN [tabs EXCEPT ![t] = BlankTab] ELSE tabs
    /\ UNCHANGED <<conversations, transactions, messages, clock, convo_read_at, item_reviews, user_reviews>>

\* ------------------------------------------------------------ chat page
\* ChatPage init(): conversation, item and latest transaction.  The
\* conversation list only offers a user the conversations they are part of.
OpenChatPage(t, viewer, c) ==
    /\ c \in DOMAIN conversations
    /\ viewer \in {conversations[c].user_a, conversations[c].user_b}
    /\ tabs' = [tabs EXCEPT ![t] = chatPage(viewer, c, items, conversations, transactions)]
    /\ convo_read_at' = markLoaded(convo_read_at, viewer, c, messages)
    /\ UNCHANGED <<items, conversations, transactions, messages, clock, item_reviews, user_reviews>>

canRequest(tab) ==
    /\ tab.viewerId # "none"
    /\ tab.item # NoItem
    /\ tab.viewerId # tab.item.owner_id
    /\ tab.tx = NoTx

\* Role helpers and button visibility
isSeller(tab) == tab.viewerId # "none" /\ tab.tx # NoTx /\ tab.viewerId = tab.tx.seller_id
isBuyer(tab) == tab.viewerId # "none" /\ tab.tx # NoTx /\ tab.viewerId = tab.tx.buyer_id
showSellerDecision(tab) == tab.tx # NoTx /\ tab.tx.status = "pending" /\ isSeller(tab)
showBuyerCancel(tab) == tab.tx # NoTx /\ tab.tx.status = "accepted" /\ isBuyer(tab)
showSellerFinalize(tab) == tab.tx # NoTx /\ tab.tx.status = "accepted" /\ isSeller(tab)

\* The trailing writes every chat handler issues without looking at errors.
trailingWrites(tab, senderId, body, okMsg, okTouch) ==
    [messages |-> IF okMsg THEN insertMessage(messages, tab.convo, senderId, body, clock)
                  ELSE messages,
     conversations |-> IF okTouch THEN touchConversation(conversations, tab.convo, clock)
                       ELSE conversations]

\* createRequest: a failed insert returns early, the rest is best effort.
createRequestEffect(tab, okTx, okMsg, okTouch) ==
    IF ~okTx
    THEN [transactions |-> transactions, messages |-> messages,
          conversations |-> conversations]
    ELSE [transactions |->
              Append(transactions,
                     [conversation_id |-> tab.convo, item_id |-> tab.item.id,
                      buyer_id |-> tab.viewerId, seller_id |-> tab.item.owner_id,
                      type |-> tab.item.listing_type, status |-> "pending",
                      completed_at |-> 0])]
         @@ trailingWrites(tab, tab.viewerId, "request", okMsg, okTouch)

createRequest(t, okTx, okMsg, okTouch) ==
    /\ tabs[t].page = "chat"
    /\ canRequest(tabs[t])
    /\ okMsg => okTx
    /\ okTouch => okTx
    /\ LET e == createRequestEffect(tabs[t], okTx, okMsg, okTouch)
       IN  /\ transactions' = e.transactions
           /\ messages' = e.messages
           /\ conversations' = e.conversations
           /\ tabs' = IF okTx THEN [tabs EXCEPT ![t].tx = reloadTx(e.transactions, tabs[t].convo)]
                      ELSE tabs
           /\ convo_read_at' = IF okTx
                                THEN markLoaded(convo_read_at, tabs[t].viewerId, tabs[t].convo,
                                                e.messages)
                                ELSE convo_read_at
    /\ UNCHANGED <<items, clock, item_reviews, user_reviews>>

\* acceptTx that takes its status writes back when the message or the touch
\* is not saved.
acceptTxEffect_rollsBack(tab, okTx, okItem, okMsg, okTouch) ==
    [transactions |-> IF okTx /\ okMsg /\ okTouch
                      THEN updateTxStatus(transactions, tab.tx.id, "accepted")
                      ELSE transactions,
     items |-> IF okItem /\ okMsg /\ okTouch
               THEN updateItemStatus(items, tab.item.id, "reserved")
               ELSE items,
     messages |-> IF okMsg
                  THEN insertMessage(messages, tab.convo, tab.tx.seller_id, "accepted", clock)
                  ELSE messages,
     conversations |-> IF okTouch THEN touchConversation(conversations, tab.convo, clock)
                       ELSE conversations]

\* acceptTx that releases the item when the transaction is accepted already.
acceptTxEffect_releases(tab, okTx, okItem, okMsg, okTouch) ==
    [transactions |-> IF okTx THEN updateTxStatus(transactions, tab.tx.id, "accepted")
                      ELSE transactions,
     items |-> IF ~okItem THEN items
               ELSE IF tab.tx.id \in DOMAIN transactions
                       /\ transactions[tab.tx.id].status = "accepted"
                    THEN updateItemStatus(items, tab.item.id, "available")
                    ELSE updateItemStatus(items, tab.item.id, "reserved")]
    @@ trailingWrites(tab, tab.tx.seller_id, "accepted", okMsg, okTouch)

\* acceptTx: transaction accepted, item reserved for rent and sell alike.
acceptTxEffect(tab, okTx, okItem, okMsg, okTouch) ==
    [transactions |-> IF okTx THEN updateTxStatus(transactions, tab.tx.id, "accepted")
                      ELSE transactions,
     items |-> IF okItem THEN updateItemStatus(items, tab.item.id, "reserved") ELSE items]
    @@ trailingWrites(tab, tab.tx.seller_id, "accepted", okMsg, okTouch)

\* denyTx with acceptTx's item update pasted in.
denyTxEffect_reserves(tab, okTx, okMsg, okTouch) ==
    [transactions |-> IF okTx THEN updateTxStatus(transactions, tab.tx.id, "denied")
                      ELSE transactions,
     items |-> updateItemStatus(items, tab.item.id, "reserved"),
     messages |-> IF okMsg
                  THEN insertMessage(messages, tab.convo, tab.tx.seller_id, "denied", clock)
                  ELSE messages,
     conversations |-> IF okTouch THEN touchConversation(conversations, tab.convo, clock)
                       ELSE conversations]

\* denyTx: transaction denied; no write to items.
denyTxEffect(tab, okTx, okMsg, okTouch) ==
    [transactions |-> IF okTx THEN updateTxStatus(transactions, tab.tx.id, "denied")
                      ELSE transactions,
     items |-> items]
    @@ trailingWrites(tab, tab.tx.seller_id, "denied", okMsg, okTouch)

\* cancelTx without the item update.
cancelTxEffect_keepsItem(tab, okTx, okItem, okMsg, okTouch) ==
    [transactions |-> IF okTx THEN updateTxStatus(transactions, tab.tx.id, "cancelled")
                      ELSE transactions,
     items |-> items,
     messages |-> IF okMsg
                  THEN insertMessage(messages, tab.convo, tab.tx.buyer_id, "cancelled", clock)
                  ELSE messages,
     conversations |-> IF okTouch THEN touchConversation(conversations, tab.convo, clock)
                       ELSE conversations]

\* cancelTx: transaction cancelled, item goes back available.
cancelTxEffect(tab, okTx, okItem, okMsg, okTouch) ==
    [transactions |-> IF okTx THEN updateTxStatus(transactions, tab.tx.id, "cancelled")
                      ELSE transactions,
     items |-> IF okItem THEN updateItemStatus(items, tab.item.id, "available") ELSE items]
    @@ trailingWrites(tab, tab.tx.buyer_id, "cancelled", okMsg, okTouch)

\* finalizeTx: transaction completed and stamped; rent -> rented, sell -> sold.
finalizeNextStatus(tx) == IF tx.type = "rent" THEN "rented" ELSE "sold"

finalizeTxEffect(tab, okTx, okItem, okMsg, okTouch) ==
    [transactions |-> IF okTx /\ tab.tx.id \in DOMAIN transactions
                              /\ transactions[tab.tx.id] # DeletedTx
                      THEN [transactions EXCEPT ![tab.tx.id].status = "completed",
                                                ![tab.tx.id].completed_at = clock]
                      ELSE transactions,
     items |-> IF okItem THEN updateItemStatus(items, tab.item.id, finalizeNextStatus(tab.tx))
               ELSE items]
    @@ trailingWrites(tab, tab.tx.seller_id, "finalized", okMsg, okTouch)

\* What the four handlers share: the early return, the writes, the reloads.
chatTransition(t, e, okMsg) ==
    /\ tabs[t].tx # NoTx /\ tabs[t].item # NoItem /\ tabs[t].convo # 0
    /\ transactions' = e.transactions
    /\ items' = e.items
    /\ messages' = e.messages
    /\ conversations' = e.conversations
    /\ tabs' = [tabs EXCEPT ![t].tx = reloadTx(e.transactions, tabs[t].convo),
                            ![t].item = reloadItem(e.items, tabs[t].item.id)]
    /\ convo_read_at' = markLoaded(convo_read_at, tabs[t].viewerId, tabs[t].convo, e.messages)
    /\ UNCHANGED <<clock, item_reviews, user_reviews>>

acceptTx(t, okTx, okItem, okMsg, okTouch) ==
    /\ tabs[t].page = "chat"
    /\ showSellerDecision(tabs[t])
    /\ chatTransition(t, acceptTxEffect(tabs[t], okTx, okItem, okMsg, okTouch), okMsg)

denyTx(t, okTx, okMsg, okTouch) ==
    /\ tabs[t].page = "chat"
    /\ showSellerDecision(tabs[t])
    /\ tabs[t].tx # NoTx /\ tabs[t].convo # 0
    /\ LET e == denyTxEffect(tabs[t], okTx, okMsg, okTouch)
       IN  /\ transactions' = e.transactions
           /\ items' = e.items
           /\ messages' = e.messages
           /\ conversations' = e.conversations
           /\ tabs' = [tabs EXCEPT ![t].tx = reloadTx(e.transactions, tabs[t].convo)]
           /\ convo_read_at' = markLoaded(convo_read_at, tabs[t].viewerId, tabs[t].convo,
                                           e.messages)
    /\ UNCHANGED <<clock, item_reviews, user_reviews>>

cancelTx(t, okTx, okItem, okMsg, okTouch) ==
    /\ tabs[t].page = "chat"
    /\ showBuyerCancel(tabs[t])
    /\ chatTransition(t, cancelTxEffect(tabs[t], okTx, okItem, okMsg, okTouch), okMsg)

finalizeTx(t, okTx, okItem, okMsg, okTouch) ==
    /\ tabs[t].page = "chat"
    /\ showSellerFinalize(tabs[t])
    /\ chatTransition(t, finalizeTxEffect(tabs[t], okTx, okItem, okMsg, okTouch), okMsg)

\* The same handlers write by write: every await is a point where another
\* session's write can land.  h names the handler, enabled is its button.
handlerSteps(t, h, enabled, txStatus, itemStatus, senderId, body) ==
    LET tab == tabs[t]
        goto(k) == [tabs EXCEPT ![t].step = <<h, k>>]
    IN  /\ tab.page = "chat"
        /\ \/ /\ tab.step = <<>>
              /\ enabled
              /\ tab.tx # NoTx /\ tab.item # NoItem /\ tab.convo # 0
              /\ transactions' = updateTxStatus(transactions, tab.tx.id, txStatus)
              /\ tabs' = goto("item")
              /\ UNCHANGED <<items, messages, conversations, convo_read_at>>
           \/ /\ tab.step = <<h, "item">>
              /\ items' = updateItemStatus(items, tab.item.id, itemStatus)
              /\ tabs' = goto("message")
              /\ UNCHANGED <<transactions, messages, conversations, convo_read_at>>
           \/ /\ tab.step = <<h, "message">>
              /\ messages' = IF Len(messages) < MaxMsgs
                             THEN insertMessage(messages, tab.convo, senderId, body, clock)
                             ELSE messages
              /\ tabs' = goto("touch")
              /\ UNCHANGED <<transactions, items, conversations, convo_read_at>>
           \/ /\ tab.step = <<h, "touch">>
              /\ conversations' = touchConversation(conversations, tab.convo, clock)
              /\ tabs' = goto("reload")
              /\ UNCHANGED <<transactions, items, messages, convo_read_at>>
           \/ /\ tab.step = <<h, "reload">>
              /\ tabs' = [tabs EXCEPT ![t].tx = reloadTx(transactions, tab.convo),
                                      ![t].item = reloadItem(items, tab.item.id),
                                      ![t].step = <<>>]
              /\ convo_read_at' = markLoaded(convo_read_at, tab.viewerId, tab.convo, messages)
              /\ UNCHANGED <<transactions, items, messages, conversations>>
        /\ UNCHANGED <<clock, item_reviews, user_reviews>>

acceptTxSteps(t) ==
    handlerSteps(t, "acceptTx", showSellerDecision(tabs[t]), "accepted", "reserved",
                 tabs[t].tx.seller_id, "accepted")

cancelTxSteps(t) ==
    handlerSteps(t, "cancelTx", showBuyerCancel(tabs[t]), "cancelled", "available",
                 tabs[t].tx.buyer_id, "cancelled")

\* ---------------------------------------------------------- first contact
\* maybeSingle(): the row when exactly one row matches; no data when none
\* matches, and none when several do (the query comes back with an error
\* that the callers do not read).
maybeSingle(found) == IF Cardinality(found) = 1 THEN CHOOSE c \in found : TRUE ELSE 0

\* insert into conversations (item_id, user_a, user_b, last_message_at)
insertConversation(convs, itemId, userA, userB, at) ==
    Append(convs, [item_id |-> itemId, user_a |-> userA, user_b |-> userB,
                   last_message_at |-> at])

\* The lookup and the insert that messageOwner and messageUser share: the
\* conversation they go to (0: none) and the table they leave.
getOrCreateConversation(convs, itemId, userA, userB, at, okConv) ==
    LET existing == maybeSingle(findConversation(convs, itemId, userA, userB))
    IN  IF existing # 0 THEN [conversations |-> convs, convoId |-> existing]
        ELSE IF okConv
             THEN [conversations |-> insertConversation(convs, itemId, userA, userB, at),
                   convoId |-> Len(convs) + 1]
             ELSE [conversations |-> convs, convoId |-> 0]

\* messageOwner (app/items/[id]/page.tsx): the button is shown to everybody
\* but the owner; no message is sent.
messageOwner(t, at, okConv) ==
    /\ tabs[t].page = "itemDetail"
    /\ tabs[t].step = <<>>
    /\ tabs[t].viewerId # "none" /\ tabs[t].item # NoItem
    /\ tabs[t].viewerId # tabs[t].item.owner_id
    /\ LET e == getOrCreateConversation(conversations, tabs[t].item.id, tabs[t].viewerId,
                                        tabs[t].item.owner_id, at, okConv)
       IN  /\ conversations' = e.conversations
           /\ tabs' = IF e.convoId = 0 THEN tabs
                      ELSE [tabs EXCEPT ![t] = chatPage(tabs[t].viewerId, e.convoId, items,
                                                        e.conversations, transactions)]
           /\ convo_read_at' = markLoaded(convo_read_at, tabs[t].viewerId, e.convoId, messages)
    /\ UNCHANGED <<items, transactions, messages, clock, item_reviews, user_reviews>>

\* The user page (users/[id]): load() keeps the session user and the profile.
OpenUserPage(t, viewer, userId) ==
    /\ tabs' = [tabs EXCEPT ![t] =
                  [BlankTab EXCEPT !.page = "user", !.viewerId = viewer, !.profileId = userId]]
    /\ UNCHANGED <<items, conversations, transactions, messages, clock, convo_read_at, item_reviews, user_reviews>>

\* messageUser: the direct conversation, item_id null ("none").
messageUser(t, at, okConv) ==
    /\ tabs[t].page = "user"
    /\ tabs[t].step = <<>>
    /\ tabs[t].viewerId # "none" /\ tabs[t].profileId # "none"
    /\ LET e == getOrCreateConversation(conversations, "none", tabs[t].viewerId,
                                        tabs[t].profileId, at, okConv)
       IN  /\ conversations' = e.conversations
           /\ tabs' = IF e.convoId = 0 THEN tabs
                      ELSE [tabs EXCEPT ![t] = chatPage(tabs[t].viewerId, e.convoId, items,
                                                        e.conversations, transactions)]
           /\ convo_read_at' = markLoaded(convo_read_at, tabs[t].viewerId, e.convoId, messages)
    /\ UNCHANGED <<items, transactions, messages, clock, item_reviews, user_reviews>>

\* openChatAndSendPreset await by await: the lookup, the insert when the
\* lookup gave no row, the preset message and the touch (both best effort),
\* then the chat page.  The timestamps are the browser's.
openChatSteps(t, at, okConv, okMsg) ==
    LET tab == tabs[t]
        h == "openChatAndSendPreset"
        goto(k, c) == [tabs EXCEPT ![t].step = <<h, k>>, ![t].convo = c]
    IN  /\ tab.page = "item"
        /\ tab.viewerId # "none" /\ tab.item # NoItem
        /\ tab.viewerId # tab.item.owner_id
        /\ \/ /\ tab.step = <<>>
              /\ LET existing == maybeSingle(findConversation(conversations, tab.item.id,
                                                              tab.viewerId, tab.item.owner_id))
                 IN  tabs' = goto(IF existing # 0 THEN "message" ELSE "insert", existing)
              /\ UNCHANGED <<conversations, messages, convo_read_at>>
           \/ /\ tab.step = <<h, "insert">>
              /\ IF okConv
                 THEN /\ conversations' = insertConversation(conversations, tab.item.id,
                                                             tab.viewerId, tab.item.owner_id, at)
                      /\ tabs' = goto("message", Len(conversations) + 1)
                 ELSE /\ conversations' = conversations
                      /\ tabs' = [tabs EXCEPT ![t].step = <<>>]
              /\ UNCHANGED <<messages, convo_read_at>>
           \/ /\ tab.step = <<h, "message">>
              /\ messages' = IF okMsg
                             THEN insertMessage(messages, tab.convo, tab.viewerId, "preset", at)
                             ELSE messages
              /\ tabs' = goto("touch", tab.convo)
              /\ UNCHANGED <<conversations, convo_read_at>>
           \/ /\ tab.step = <<h, "touch">>
              /\ conversations' = touchConversation(conversations, tab.convo, at)
              /\ tabs' = [tabs EXCEPT ![t] = chatPage(tab.viewerId, tab.convo, items,
                                                      conversations', transactions)]
              /\ convo_read_at' = markLoaded(convo_read_at, tab.viewerId, tab.convo, messages)
              /\ UNCHANGED messages
        /\ UNCHANGED <<items, transactions, clock, item_reviews, user_reviews>>

\* send: the message gets the server's created_at; the conversation is
\* touched, with the browser's time, when the insert went through.
send(t, at, ok) ==
    /\ tabs[t].page = "chat"
    /\ tabs[t].step = <<>>
    /\ tabs[t].viewerId # "none" /\ tabs[t].convo # 0
    /\ messages' = IF ok THEN insertMessage(messages, tabs[t].convo, tabs[t].viewerId, "text", clock)
                   ELSE messages
    /\ conversations' = IF ok THEN touchConversation(conversations, tabs[t].convo, at)
                        ELSE conversations
    /\ convo_read_at' = markLoaded(convo_read_at, tabs[t].viewerId, tabs[t].convo, messages')
    /\ UNCHANGED <<items, transactions, clock, item_reviews, user_reviews, tabs>>

\* The 2 s timer of the chat page (and its realtime subscription): one more
\* reloadMessages.
pollMessages(t) ==
    /\ tabs[t].page = "chat"
    /\ tabs[t].convo # 0
    /\ convo_read_at' = markLoaded(convo_read_at, tabs[t].viewerId, tabs[t].convo, messages)
    /\ UNCHANGED <<items, conversations, transactions, messages, clock, item_reviews,
                   user_reviews, tabs>>

\* BottomNav refreshUnread: the dot on the Messages entry (no chat hidden).
refreshUnread(map, convs, uid) ==
    \E c \in DOMAIN convs :
        /\ uid \in {convs[c].user_a, convs[c].user_b}
        /\ isConversationUnread(map, uid, c, convs[c].last_message_at)

\* The message list in creation order.
reloadMessages_insertionOrder(msgs, convoId) ==
    LET ids == {k \in DOMAIN msgs : msgs[k].conversation_id = convoId}
    IN  {l \in [1..Cardinality(ids) -> ids] : \A i, j \in DOMAIN l : i < j => l[i] < l[j]}

\* reloadMessages: the conversation's messages, order by created_at
\* ascending; the lists the query can return (rows with equal created_at
\* come in any order), as lists of row numbers.
reloadMessages(msgs, convoId) ==
    LET ids == {k \in DOMAIN msgs : msgs[k].conversation_id = convoId}
    IN  {l \in [1..Cardinality(ids) -> ids] :
            /\ \A i, j \in DOMAIN l : i # j => l[i] # l[j]
            /\ \A i, j \in DOMAIN l : i < j => msgs[l[i]].created_at <= msgs[l[j]].created_at}

\* ------------------------------------------------------- account page
\* EditProfilePage: the session user.
OpenAccountPage(t, viewer) ==
    /\ tabs' = [tabs EXCEPT ![t] = [BlankTab EXCEPT !.page = "account", !.viewerId = viewer]]
    /\ UNCHANGED <<items, conversations, transactions, messages, clock, convo_read_at, item_reviews, user_reviews>>

\* deleteAccount that takes the whole conversations along, the other
\* user's messages included.
deleteAccountEffect_wholeConversations(uid) ==
    LET mine == {c \in DOMAIN conversations :
                    conversations[c].user_a = uid \/ conversations[c].user_b = uid}
    IN  [transactions |-> [k \in DOMAIN transactions |->
                             IF transactions[k].buyer_id = uid \/ transactions[k].seller_id = uid
                             THEN DeletedTx ELSE transactions[k]],
         messages |-> [k \in DOMAIN messages |->
                         IF messages[k].conversation_id \in mine THEN DeletedMsg
                         ELSE messages[k]],
         conversations |-> [c \in DOMAIN conversations |->
                              IF c \in mine THEN DeletedConv ELSE conversations[c]],
         user_reviews |-> user_reviews,
         items |-> items,
         item_reviews |-> item_reviews]

\* deleteAccount: the deletes it issues, in its order: transactions on the
\* user's items, transactions as buyer or seller, messages sent,
\* conversations, user reviews written and received, items, profile
\* (item_reviews rows go with their item and with their reviewer's profile).
deleteAccountEffect(uid) ==
    LET ownedItemIds == {i \in DOMAIN items : items[i].owner_id = uid}
        txs1 == [k \in DOMAIN transactions |->
                    IF transactions[k].item_id \in ownedItemIds THEN DeletedTx
                    ELSE transactions[k]]
    IN  [transactions |-> [k \in DOMAIN txs1 |->
                             IF txs1[k].buyer_id = uid \/ txs1[k].seller_id = uid
                             THEN DeletedTx ELSE txs1[k]],
         messages |-> [k \in DOMAIN messages |->
                         IF messages[k].sender_id = uid THEN DeletedMsg ELSE messages[k]],
         conversations |-> [c \in DOMAIN conversations |->
                              IF conversations[c].user_a = uid \/ conversations[c].user_b = uid
                              THEN DeletedConv ELSE conversations[c]],
         user_reviews |-> SelectSeq(user_reviews,
                                    LAMBDA r : r.reviewer_id # uid /\ r.reviewed_user_id # uid),
         items |-> [i \in DOMAIN items \ ownedItemIds |-> items[i]],
         item_reviews |-> SelectSeq(item_reviews,
                                    LAMBDA r : r.item_id \notin ownedItemIds
                                               /\ r.reviewer_id # uid)]

\* The button is enabled once "delete" is typed; the handler signs the user
\* out and leaves for the signup page.
deleteAccount(t) ==
    /\ tabs[t].page = "account"
    /\ tabs[t].viewerId # "none"
    /\ LET e == deleteAccountEffect(tabs[t].viewerId)
       IN  /\ transactions' = e.transactions
           /\ messages' = e.messages
           /\ conversations' = e.conversations
           /\ user_reviews' = e.user_reviews
           /\ items' = e.items
           /\ item_reviews' = e.item_reviews
    /\ tabs' = [tabs EXCEPT ![t] = BlankTab]
    /\ UNCHANGED <<clock, convo_read_at>>

\* ------------------------------------------- RentalRequestActions island
\* load(): conversation, item (id, owner_id, listing_type), latest transaction.
islandItem(its, itemId) ==
    IF itemId \in DOMAIN its THEN [reloadItem(its, itemId) EXCEPT !.status = "none"] ELSE NoItem

islandTx(txs, conversationId) ==
    LET x == reloadTx(txs, conversationId)
    IN  IF x = NoTx THEN NoTx ELSE [NoTx EXCEPT !.id = x.id, !.status = x.status]

OpenIsland(t, viewer, c) ==
    /\ c \in DOMAIN conversations
    /\ viewer \in {conversations[c].user_a, conversations[c].user_b}
    /\ tabs' = [tabs EXCEPT ![t] =
                  [page |-> "island", viewerId |-> viewer, convo |-> c,
                   item |-> islandItem(items, conversations[c].item_id),
                   tx |-> islandTx(transactions, c), step |-> <<>>,
                   profileId |-> "none", canReview |-> FALSE, reviewMsg |-> "none"]]
    /\ UNCHANGED <<items, conversations, transactions, messages, clock, convo_read_at, item_reviews, user_reviews>>

isOwner(tab) == tab.viewerId # "none" /\ tab.item # NoItem /\ tab.viewerId = tab.item.owner_id

\* The owner's buttons: Accept and Deny while pending, Finalize while accepted.
islandButton(tab, next) ==
    /\ tab.item.listing_type = "rent"                     \* island is for rent listings
    /\ isOwner(tab)
    /\ \/ next \in {"accepted", "denied"} /\ tab.tx.status = "pending"
       \/ next = "completed" /\ tab.tx.status = "accepted"

\* setStatus with the chat page's item updates added.
setStatusEffect_writesItem(tab, next, ok) ==
    [transactions |-> IF ok THEN updateTxStatus(transactions, tab.tx.id, next)
                      ELSE transactions,
     items |-> IF ok /\ next = "accepted" THEN updateItemStatus(items, tab.item.id, "reserved")
               ELSE IF ok /\ next = "completed"
                    THEN updateItemStatus(items, tab.item.id, "rented")
                    ELSE items]

\* setStatus: one write, the transaction's status; an error returns early.
setStatusEffect(tab, next, ok) ==
    [transactions |-> IF ok THEN updateTxStatus(transactions, tab.tx.id, next)
                      ELSE transactions,
     items |-> items]

setStatus(t, next, ok) ==
    /\ tabs[t].page = "island"
    /\ islandButton(tabs[t], next)
    /\ tabs[t].tx.id # 0
    /\ LET e == setStatusEffect(tabs[t], next, ok)
       IN  /\ transactions' = e.transactions
           /\ items' = e.items
           /\ tabs' = IF ok THEN [tabs EXCEPT ![t].tx = islandTx(e.transactions, tabs[t].convo)]
                      ELSE tabs
    /\ UNCHANGED <<conversations, messages, clock, convo_read_at, item_reviews, user_reviews>>

\* ------------------------------------------------------------------ Next
\* The tables hold MaxTx transactions and MaxMsgs messages: an insert into a
\* full table comes back with an error.
roomTx == Len(transactions) < MaxTx
roomMsg == Len(messages) < MaxMsgs

\* T: the browser tabs in use; V: the users signed in on them; F: what a
\* write that the store could serve may come back with ({TRUE}: it always
\* succeeds, BOOLEAN: it may fail).
Create(T, F) ==
    \E t \in T, okTx \in {b /\ roomTx : b \in F}, okMsg \in {b /\ roomMsg : b \in F}, okTouch \in F :
        createRequest(t, okTx, okMsg, okTouch)
Accept(T, F) ==
    \E t \in T, okTx \in F, okItem \in F, okMsg \in {b /\ roomMsg : b \in F}, okTouch \in F :
        acceptTx(t, okTx, okItem, okMsg, okTouch)
Deny(T, F) ==
    \E t \in T, okTx \in F, okMsg \in {b /\ roomMsg : b \in F}, okTouch \in F :
        denyTx(t, okTx, okMsg, okTouch)
Cancel(T, F) ==
    \E t \in T, okTx \in F, okItem \in F, okMsg \in {b /\ roomMsg : b \in F}, okTouch \in F :
        cancelTx(t, okTx, okItem, okMsg, okTouch)
Finalize(T, F) ==
    \E t \in T, okTx \in F, okItem \in F, okMsg \in {b /\ roomMsg : b \in F}, okTouch \in F :
        finalizeTx(t, okTx, okItem, okMsg, okTouch)
IslandSetStatus(T, F) ==
    \E t \in T, next \in {"accepted", "denied", "completed"}, ok \in F : setStatus(t, next, ok)
MarkReturned(T, F) == \E t \in T, ok \in F : markReturned(t, ok)
SaveEdit(T, F) ==
    \E t \in T, st \in ItemStatuses, ok \in F : save(t, st, ok)
OpenChat(T, F) ==
    \E t \in T, okConv \in F, okMsg \in {b /\ roomMsg : b \in F}, okTouch \in F :
        openChatAndSendPreset(t, okConv, okMsg, okTouch)
VisitItem(T, V) == \E t \in T, v \in V, i \in ItemIds : OpenItemPage(t, v, i)
VisitEdit(T, V) == \E t \in T, v \in V, i \in ItemIds : OpenEditPage(t, v, i)
VisitChat(T, V) == \E t \in T, v \in V, c \in DOMAIN conversations : OpenChatPage(t, v, c)
VisitIsland(T, V) == \E t \in T, v \in V, c \in DOMAIN conversations : OpenIsland(t, v, c)

\* The conversation between the owner (u1) and a buyer (u2): each of the two
\* tabs shows the chat page or the rental island, for either user.
Next ==
    \/ VisitChat(Tabs, Viewers)
    \/ VisitIsland(Tabs, Viewers)
    \/ Create(Tabs, {TRUE})
    \/ Accept(Tabs, {TRUE})
    \/ Deny(Tabs, {TRUE})
    \/ Cancel(Tabs, {TRUE})
    \/ Finalize(Tabs, {TRUE})
    \/ IslandSetStatus(Tabs, {TRUE})

Spec == InitChat /\ [][Next]_vars

\* The listing from the day it is posted: tab t1 goes through every page,
\* tab t2 is the owner's second tab, open on the listing editor.
NextListing ==
    \/ VisitItem({"t1"}, Viewers)
    \/ VisitEdit(Tabs, Viewers)
    \/ VisitChat({"t1"}, Viewers)
    \/ VisitIsland({"t1"}, Viewers)
    \/ OpenChat(Tabs, {TRUE})
    \/ Create(Tabs, {TRUE})
    \/ Accept(Tabs, {TRUE})
    \/ Deny(Tabs, {TRUE})
    \/ Cancel(Tabs, {TRUE})
    \/ Finalize(Tabs, {TRUE})
    \/ IslandSetStatus(Tabs, {TRUE})
    \/ MarkReturned(Tabs, {TRUE})
    \/ SaveEdit(Tabs, {TRUE})

SpecListing == Init /\ [][NextListing]_vars

\* The store once a buyer (u2) has talked to the owner and up to MaxTx
\* requests have reached any status; the listing's status is whatever the
\* handlers or the editor left.  A transaction's type is the listing's type.
\* u3 is a user without any transaction.
ReviewTxRows(lt) ==
    {[conversation_id |-> 1, item_id |-> "i1", buyer_id |-> "u2", seller_id |-> ItemOwner,
      type |-> lt, status |-> st, completed_at |-> (IF st = "completed" THEN 1 ELSE 0)] :
        st \in {"pending", "accepted", "denied", "cancelled", "completed"}}

InitReview ==
    /\ \E lt \in ListingTypes, st \in ItemStatuses :
          /\ items = [i \in ItemIds |->
                        [owner_id |-> ItemOwner, listing_type |-> lt, status |-> st]]
          /\ \E n \in 0..MaxTx : transactions \in [1..n -> ReviewTxRows(lt)]
    /\ conversations = <<[item_id |-> "i1", user_a |-> "u2", user_b |-> ItemOwner,
                          last_message_at |-> 1]>>
    /\ messages = <<>>
    /\ clock = 1
    /\ convo_read_at = NoReadMarks
    /\ item_reviews = <<>>
    /\ user_reviews = <<>>
    /\ tabs = [t \in Tabs |-> BlankTab]

VisitItemDetail(T, V) == \E t \in T, v \in V, i \in ItemIds : OpenItemDetailPage(t, v, i)
VisitProfile(T, V) == \E t \in T, v \in V, p \in Reviewers : OpenProfilePage(t, v, p)
SubmitItemReview(T, F) == \E t \in T, r \in Ratings, ok \in F : submitItemReview(t, r, ok)
SubmitReview(T, F) == \E t \in T, r \in Ratings, ok \in F : submitReview(t, r, ok)
SaveReview(T, F) == \E t \in T, r \in Ratings, ok \in F : saveReview(t, r, ok)

\* One tab going through the item pages and the profile page: the gates,
\* Mark Returned and the item reviews.
NextReview ==
    \/ VisitItem({"t1"}, Reviewers)
    \/ VisitItemDetail({"t1"}, Reviewers)
    \/ VisitProfile({"t1"}, Reviewers)
    \/ MarkReturned({"t1"}, {TRUE})
    \/ SubmitItemReview({"t1"}, {TRUE})
    \/ SubmitReview({"t1"}, {TRUE})

SpecReview == InitReview /\ [][NextReview]_vars

\* A rental from the request to the review: the chat page for request,
\* accept and finalize, the item page for Mark Returned and the review.
NextRental ==
    \/ VisitChat(Tabs, Viewers)
    \/ VisitItem(Tabs, Viewers)
    \/ Create(Tabs, {TRUE})
    \/ Accept(Tabs, {TRUE})
    \/ Finalize(Tabs, {TRUE})
    \/ MarkReturned(Tabs, {TRUE})
    \/ SubmitItemReview(Tabs, {TRUE})

SpecRental == InitChat /\ [][NextRental]_vars

\* One tab on the profile pages: the user reviews.
NextProfile ==
    \/ VisitProfile({"t1"}, Reviewers)
    \/ SaveReview({"t1"}, {TRUE})

SpecProfile == InitReview /\ [][NextProfile]_vars

\* One tab on the conversation, every write free to fail.
NextFail ==
    \/ VisitChat({"t1"}, Viewers)
    \/ VisitIsland({"t1"}, Viewers)
    \/ Create({"t1"}, BOOLEAN)
    \/ Accept({"t1"}, BOOLEAN)
    \/ Deny({"t1"}, BOOLEAN)
    \/ Cancel({"t1"}, BOOLEAN)
    \/ Finalize({"t1"}, BOOLEAN)
    \/ IslandSetStatus({"t1"}, BOOLEAN)

SpecFail == InitChat /\ [][NextFail]_vars

\* Accept and Cancel write by write in two tabs; a page is opened only while
\* no handler runs on its tab.
VisitChatIdle(T, V) ==
    \E t \in T, v \in V, c \in DOMAIN conversations :
        tabs[t].step = <<>> /\ OpenChatPage(t, v, c)
AcceptSteps(T) == \E t \in T : acceptTxSteps(t)
CancelSteps(T) == \E t \in T : cancelTxSteps(t)

NextRace ==
    \/ VisitChatIdle(Tabs, Viewers)
    \/ Create(Tabs, {TRUE})
    \/ AcceptSteps(Tabs)
    \/ CancelSteps(Tabs)

SpecRace == InitChat /\ [][NextRace]_vars

\* First contact about the listing: the buyer's two browser sessions on the
\* item page, the other item page and the owner's user page in the first.
\* A: the times the browsers' clocks give.
roomConv == Len(conversations) < MaxConvs
idle(t) == tabs[t].step = <<>>
VisitItemIdle(T, V) == \E t \in T, v \in V, i \in ItemIds : idle(t) /\ OpenItemPage(t, v, i)
VisitItemDetailIdle(T, V) ==
    \E t \in T, v \in V, i \in ItemIds : idle(t) /\ OpenItemDetailPage(t, v, i)
VisitUserIdle(T, V) == \E t \in T, v \in V : idle(t) /\ OpenUserPage(t, v, ItemOwner)
OpenChatSteps(T, A) == \E t \in T, at \in A : openChatSteps(t, at, roomConv, roomMsg)
MessageOwner(T, A) == \E t \in T, at \in A : messageOwner(t, at, roomConv)
MessageUser(T, A) == \E t \in T, at \in A : messageUser(t, at, roomConv)
Send(T, A) == \E t \in T, at \in A : send(t, at, roomMsg)

NextContact ==
    \/ VisitItemIdle(Tabs, {"u2"})
    \/ VisitItemDetailIdle({"t1"}, {"u2"})
    \/ VisitUserIdle({"t1"}, {"u2"})
    \/ OpenChatSteps(Tabs, {clock})
    \/ MessageOwner({"t1"}, {clock})
    \/ MessageUser({"t1"}, {clock})

SpecContact == Init /\ [][NextContact]_vars

\* The race for the first conversation: each of the buyer's two sessions
\* opens the item page once and contacts the owner; messages follow.
VisitItemFresh(T, V) ==
    \E t \in T, v \in V, i \in ItemIds : tabs[t].page = "none" /\ OpenItemPage(t, v, i)

NextFirstContact ==
    \/ VisitItemFresh(Tabs, {"u2"})
    \/ OpenChatSteps(Tabs, ClientTimes)
    \/ Send(Tabs, ClientTimes)

SpecFirstContact == Init /\ [][NextFirstContact]_vars

\* Two buyers (u2, u3), each with a conversation of their own about the
\* same listing (messageOwner inserts the conversation and no message).
InitBuyers ==
    /\ \E lt \in ListingTypes :
          items = [i \in ItemIds |->
                     [owner_id |-> ItemOwner, listing_type |-> lt, status |-> "available"]]
    /\ conversations = <<[item_id |-> "i1", user_a |-> "u2", user_b |-> ItemOwner,
                          last_message_at |-> 1],
                         [item_id |-> "i1", user_a |-> "u3", user_b |-> ItemOwner,
                          last_message_at |-> 1]>>
    /\ transactions = <<>>
    /\ messages = <<>>
    /\ clock = 1
    /\ convo_read_at = NoReadMarks
    /\ item_reviews = <<>>
    /\ user_reviews = <<>>
    /\ tabs = [t \in Tabs |-> BlankTab]

\* The owner in tab t1, on the chat pages and the item page; the buyers in
\* tab t2, each on the chat page of their conversation.
NextBuyers ==
    \/ VisitChat({"t1"}, {ItemOwner})
    \/ VisitChat({"t2"}, {"u2", "u3"})
    \/ VisitItem({"t1"}, {ItemOwner})
    \/ Create(Tabs, {TRUE})
    \/ Accept(Tabs, {TRUE})
    \/ Deny(Tabs, {TRUE})
    \/ Cancel(Tabs, {TRUE})
    \/ Finalize(Tabs, {TRUE})
    \/ MarkReturned(Tabs, {TRUE})

SpecBuyers == InitBuyers /\ [][NextBuyers]_vars

\* One conversation, Accept running write by write: the page keeps showing
\* what it loaded until the handler's reloads, and Deny is disabled only
\* while actionLoading is "deny".
NextSession ==
    \/ VisitChatIdle(Tabs, Viewers)
    \/ Create(Tabs, {TRUE})
    \/ AcceptSteps(Tabs)
    \/ Deny(Tabs, {TRUE})

SpecSession == InitChat /\ [][NextSession]_vars

\* An account deleted in the middle of a conversation: the chat in tab t1,
\* the account page in tab t2.
VisitAccount(T, V) == \E t \in T, v \in V : OpenAccountPage(t, v)
DeleteAccount(T) == \E t \in T : deleteAccount(t)

NextAccount ==
    \/ VisitChat({"t1"}, Viewers)
    \/ VisitAccount({"t2"}, Viewers)
    \/ Create({"t1"}, {TRUE})
    \/ Accept({"t1"}, {TRUE})
    \/ Deny({"t1"}, {TRUE})
    \/ Cancel({"t1"}, {TRUE})
    \/ Finalize({"t1"}, {TRUE})
    \/ Send({"t1"}, {clock})
    \/ DeleteAccount({"t2"})

SpecAccount == InitChat /\ [][NextAccount]_vars

\* The conversation as time passes: both users read and write in it, the
\* server's clock moves on, a browser's clock shows the server's time or
\* runs ahead of it.
Tick ==
    /\ clock < MaxClock
    /\ clock' = clock + 1
    /\ UNCHANGED <<items, conversations, transactions, messages, item_reviews, user_reviews,
                   tabs, convo_read_at>>
PollMessages(T) == \E t \in T : pollMessages(t)

NextUnread ==
    \/ PollMessages(Tabs)
    \/ Send(Tabs, {clock, clock + 1})
    \/ VisitChat(Tabs, Viewers)
    \/ Tick

SpecUnread == InitChat /\ [][NextUnread]_vars

\* ================================================================ claims
\* The row a tab's handler addresses, and the steps of each operation.  An
\* operation is completed when its status writes went through; the message
\* and the touch that trail it are best effort (Accept is asked for both).
txId(t) == tabs[t].tx.id
hasRow(t) == txId(t) \in DOMAIN transactions
chatAccept(t) == acceptTx(t, TRUE, TRUE, TRUE, TRUE)
chatDeny(t) == \E okMsg, okTouch \in BOOLEAN : denyTx(t, TRUE, okMsg, okTouch)
chatCancel(t) == \E okMsg, okTouch \in BOOLEAN : cancelTx(t, TRUE, TRUE, okMsg, okTouch)
chatFinalize(t) == \E okMsg, okTouch \in BOOLEAN : finalizeTx(t, TRUE, TRUE, okMsg, okTouch)
chatCreate(t) == \E okMsg, okTouch \in BOOLEAN : createRequest(t, TRUE, okMsg, okTouch)
anyAccept(t) ==
    \E okTx, okItem, okMsg, okTouch \in BOOLEAN : acceptTx(t, okTx, okItem, okMsg, okTouch)
anyDeny(t) == \E okTx, okMsg, okTouch \in BOOLEAN : denyTx(t, okTx, okMsg, okTouch)
anyCancel(t) ==
    \E okTx, okItem, okMsg, okTouch \in BOOLEAN : cancelTx(t, okTx, okItem, okMsg, okTouch)
anyFinalize(t) ==
    \E okTx, okItem, okMsg, okTouch \in BOOLEAN : finalizeTx(t, okTx, okItem, okMsg, okTouch)
anySetStatus(t) == \E next \in {"accepted", "denied", "completed"} : setStatus(t, next, TRUE)
AcceptDone(t) == chatAccept(t) \/ setStatus(t, "accepted", TRUE)
DenyDone(t) == chatDeny(t) \/ setStatus(t, "denied", TRUE)
FinalizeDone(t) == chatFinalize(t) \/ setStatus(t, "completed", TRUE)
itemStatusChanged == \E i \in ItemIds : items'[i].status # items[i].status
messageSent(body) == \E k \in DOMAIN messages : messages[k].body = body

LegalEdges == {<<"pending", "accepted">>, <<"pending", "denied">>,
               <<"accepted", "cancelled">>, <<"accepted", "completed">>}

\* C1: a transaction's stored status changes only along pending->accepted,
\* pending->denied, accepted->cancelled, accepted->completed.
C1_StatusFollowsEdges ==
    [][\A i \in DOMAIN transactions :
          transactions'[i].status # transactions[i].status
             => <<transactions[i].status, transactions'[i].status>> \in LegalEdges]_vars

\* C2: a Finalize invoked on a transaction the buyer has cancelled is
\* rejected: the row stays cancelled with completed_at unset, the item stays
\* as Cancel left it.
C2_FinalizeAfterCancelRejected ==
    [][\A t \in Tabs :
          ((anyFinalize(t) \/ setStatus(t, "completed", TRUE))
             /\ hasRow(t) /\ transactions[txId(t)].status = "cancelled")
             => /\ transactions'[txId(t)].status = "cancelled"
                /\ transactions'[txId(t)].completed_at = 0
                /\ items' = items]_vars

\* C3: Accept, Deny and Finalize change a transaction or item row only for
\* the transaction's seller, Cancel only for its buyer and only while the
\* stored transaction is accepted.
rowsChanged == transactions' # transactions \/ items' # items

C3_OnlySellerOrBuyerWhileAccepted ==
    [][\A t \in Tabs :
          /\ ((anyAccept(t) \/ anyDeny(t) \/ anyFinalize(t) \/ anySetStatus(t)) /\ rowsChanged)
                => hasRow(t) /\ tabs[t].viewerId = transactions[txId(t)].seller_id
          /\ (anyCancel(t) /\ rowsChanged)
                => /\ hasRow(t)
                   /\ tabs[t].viewerId = transactions[txId(t)].buyer_id
                   /\ transactions[txId(t)].status = "accepted"]_vars

\* C4: a completed Accept on a pending transaction leaves it accepted and
\* its item reserved, appends one message by the seller to the conversation
\* and stamps the conversation's last_message_at.
C4_AcceptEffect ==
    [][\A t \in Tabs :
          (AcceptDone(t) /\ hasRow(t) /\ transactions[txId(t)].status = "pending")
             => /\ transactions'[txId(t)].status = "accepted"
                /\ items'[transactions[txId(t)].item_id].status = "reserved"
                /\ Len(messages') = Len(messages) + 1
                /\ messages'[Len(messages')].conversation_id = tabs[t].convo
                /\ messages'[Len(messages')].sender_id = transactions[txId(t)].seller_id
                /\ conversations'[tabs[t].convo].last_message_at = clock]_vars

\* C5: a completed Finalize on an accepted transaction leaves it completed
\* with completed_at set, and the item rented (type rent) or sold (type sell).
C5_FinalizeEffect ==
    [][\A t \in Tabs :
          (FinalizeDone(t) /\ hasRow(t) /\ transactions[txId(t)].status = "accepted")
             => /\ transactions'[txId(t)].status = "completed"
                /\ transactions'[txId(t)].completed_at # 0
                /\ items'[transactions[txId(t)].item_id].status =
                      (IF transactions[txId(t)].type = "rent" THEN "rented" ELSE "sold")]_vars

\* C6: a completed Cancel on an accepted transaction leaves it cancelled and
\* its item available.
C6_CancelEffect ==
    [][\A t \in Tabs :
          (chatCancel(t) /\ hasRow(t) /\ transactions[txId(t)].status = "accepted")
             => /\ transactions'[txId(t)].status = "cancelled"
                /\ items'[transactions[txId(t)].item_id].status = "available"]_vars

\* A transaction accepted and then cancelled on the chat page (both messages
\* are in the conversation), the item available again.
C6_Witness ==
    /\ Len(transactions) = 1
    /\ transactions[1].status = "cancelled"
    /\ items[transactions[1].item_id].status = "available"
    /\ messageSent("accepted")
    /\ messageSent("cancelled")

\* C7: Deny on a pending transaction sets it denied and leaves the items
\* table as it was.
C7_DenyEffect ==
    [][\A t \in Tabs :
          (DenyDone(t) /\ hasRow(t) /\ transactions[txId(t)].status = "pending")
             => /\ transactions'[txId(t)].status = "denied"
                /\ items' = items]_vars

\* A denied transaction whose Deny message is in the conversation, the item
\* still available.
C7_Witness ==
    \E i \in DOMAIN transactions :
        /\ transactions[i].status = "denied"
        /\ items[transactions[i].item_id].status = "available"
        /\ messageSent("denied")

\* C8: Create runs only for a viewer who is not the owner in a conversation
\* that has no transaction; it inserts one pending row (buyer the viewer,
\* seller the owner, type the listing's listing_type) and leaves items alone.
C8_CreateGuardAndEffect ==
    [][\A t \in Tabs :
          chatCreate(t)
             => LET it == items[tabs[t].item.id]
                    new == transactions'[Len(transactions')]
                IN  /\ tabs[t].viewerId # it.owner_id
                    /\ reloadTx(transactions, tabs[t].convo) = NoTx
                    /\ Len(transactions') = Len(transactions) + 1
                    /\ new.status = "pending"
                    /\ new.buyer_id = tabs[t].viewerId
                    /\ new.seller_id = it.owner_id
                    /\ new.buyer_id # new.seller_id
                    /\ new.type = it.listing_type
                    /\ items' = items]_vars

\* C9: Mark Returned changes the item only for the owner of a rent listing
\* whose stored status is rented; what it writes is status available, and it
\* leaves transactions alone.
C9_MarkReturnedGuardAndEffect ==
    [][\A t \in Tabs :
          markReturned(t, TRUE)
             => LET it == items[tabs[t].item.id]
                IN  /\ items'[tabs[t].item.id].status = "available"
                    /\ transactions' = transactions
                    /\ items' # items
                          => /\ tabs[t].viewerId = it.owner_id
                             /\ it.listing_type = "rent"
                             /\ it.status = "rented"]_vars

laterWritesIssued == items' # items \/ messages' # messages \/ conversations' # conversations

\* C11: in Accept, Deny, Cancel and Finalize a failed write ends the
\* operation: when the transaction update fails, the item update, the message
\* insert and the conversation touch are not issued; when the item update
\* fails, no message is inserted.
C11_FailedWriteAborts ==
    [][\A t \in Tabs, okItem, okMsg, okTouch \in BOOLEAN :
          /\ ( \/ acceptTx(t, FALSE, okItem, okMsg, okTouch)
               \/ denyTx(t, FALSE, okMsg, okTouch)
               \/ cancelTx(t, FALSE, okItem, okMsg, okTouch)
               \/ finalizeTx(t, FALSE, okItem, okMsg, okTouch)
               \/ \E next \in {"accepted", "denied", "completed"} : setStatus(t, next, FALSE) )
                => ~laterWritesIssued
          /\ \A okTx \in BOOLEAN :
                ( \/ acceptTx(t, okTx, FALSE, okMsg, okTouch)
                  \/ cancelTx(t, okTx, FALSE, okMsg, okTouch)
                  \/ finalizeTx(t, okTx, FALSE, okMsg, okTouch) )
                   => messages' = messages]_vars

\* C12: a transition whose message insert or conversation touch fails keeps
\* the transaction status and the item status it wrote.
C12_TrailingFailureKeepsStatus ==
    [][\A t \in Tabs, okMsg, okTouch \in BOOLEAN :
          (~okMsg \/ ~okTouch)
             => /\ acceptTx(t, TRUE, TRUE, okMsg, okTouch)
                   => /\ transactions'[txId(t)].status = "accepted"
                      /\ items'[tabs[t].item.id].status = "reserved"
                /\ denyTx(t, TRUE, okMsg, okTouch)
                   => transactions'[txId(t)].status = "denied"
                /\ cancelTx(t, TRUE, TRUE, okMsg, okTouch)
                   => /\ transactions'[txId(t)].status = "cancelled"
                      /\ items'[tabs[t].item.id].status = "available"
                /\ finalizeTx(t, TRUE, TRUE, okMsg, okTouch)
                   => /\ transactions'[txId(t)].status = "completed"
                      /\ items'[tabs[t].item.id].status = finalizeNextStatus(tabs[t].tx)]_vars

\* Accepted and reserved on the chat page although the Accept message was
\* never saved.
C12_Witness ==
    /\ Len(transactions) = 1
    /\ transactions[1].status = "accepted"
    /\ items[transactions[1].item_id].status = "reserved"
    /\ messageSent("request")
    /\ ~messageSent("accepted")

\* C13: with Accept and Cancel running write by write in two sessions, every
\* write lands whatever the row holds (the last write wins): the transaction
\* update leaves the status it wrote, the item update likewise.
C13_LastWriteWins ==
    [][\A t \in Tabs :
          /\ (acceptTxSteps(t) /\ tabs[t].step = <<>>)
                => transactions'[txId(t)].status = "accepted"
          /\ (cancelTxSteps(t) /\ tabs[t].step = <<>>)
                => transactions'[txId(t)].status = "cancelled"
          /\ (acceptTxSteps(t) /\ tabs[t].step = <<"acceptTx", "item">>)
                => items'[tabs[t].item.id].status = "reserved"
          /\ (cancelTxSteps(t) /\ tabs[t].step = <<"cancelTx", "item">>)
                => items'[tabs[t].item.id].status = "available"]_vars

\* Both handlers have finished, the Cancel message is in the conversation,
\* and the rows disagree: transaction accepted, item available.
C13_Witness ==
    /\ \A t \in Tabs : tabs[t].step = <<>>
    /\ Len(transactions) = 1
    /\ transactions[1].status = "accepted"
    /\ items[transactions[1].item_id].status = "available"
    /\ messageSent("cancelled")

\* A completed transaction between the two users, in either order.
completedBetween(v, o) ==
    \E i \in DOMAIN transactions :
        /\ transactions[i].status = "completed"
        /\ {transactions[i].buyer_id, transactions[i].seller_id} = {v, o}

\* C14: the user-review gate for (viewer, other) is true exactly when some
\* completed transaction has buyer and seller equal to viewer and other in
\* either order; the profile page shows what the gate says.
C14_UserGate ==
    /\ \A v, o \in Reviewers :
          canLeaveUserReview(transactions, v, o) <=> completedBetween(v, o)
    /\ \A t \in Tabs :
          tabs[t].page = "profile"
             => (tabs[t].canReview <=> completedBetween(tabs[t].viewerId, tabs[t].profileId))

\* The seller on the buyer's profile, eligible through a completed
\* transaction that sits next to one that is not completed.
C14_Witness ==
    /\ tabs["t1"].page = "profile"
    /\ tabs["t1"].viewerId = ItemOwner /\ tabs["t1"].profileId = "u2"
    /\ tabs["t1"].canReview
    /\ \E i \in DOMAIN transactions : transactions[i].status # "completed"

\* The viewer rented the item and the rental is completed.
completedRentAsBuyer(v, itemId) ==
    \E i \in DOMAIN transactions :
        /\ transactions[i].item_id = itemId
        /\ transactions[i].type = "rent"
        /\ transactions[i].status = "completed"
        /\ transactions[i].buyer_id = v

\* C15: on either item page the item-review gate is true only if some
\* transaction has the item's id, type rent, status completed and the
\* viewer as buyer.
C15_ItemGateOnlyRenter ==
    \A t \in Tabs :
        (tabs[t].page \in {"item", "itemDetail"} /\ tabs[t].canReview)
           => completedRentAsBuyer(tabs[t].viewerId, tabs[t].item.id)

\* What C16 states for the gate, on a store.
itemGate(txs, its, revs, v, itemId) ==
    /\ \E i \in DOMAIN txs :
          /\ txs[i].item_id = itemId /\ txs[i].type = "rent"
          /\ txs[i].status = "completed" /\ txs[i].buyer_id = v
    /\ its[itemId].status = "available"
    /\ ~\E k \in DOMAIN revs : revs[k].item_id = itemId /\ revs[k].reviewer_id = v

\* C16: the item page's gate (loadItemReviews) is true exactly when the
\* viewer has a completed rent transaction as buyer on the item, the item's
\* status is available and the viewer has no review of it yet: whenever the
\* page loads; a rental finalized and not yet returned leaves the gate false
\* for everybody; after Mark Returned the gate is what the other two
\* conditions say; after a saved review it is false.
C16_ItemPageGate ==
    [][\A t \in Tabs :
          /\ (\E v \in Viewers, i \in ItemIds : OpenItemPage(t, v, i))
                => (tabs'[t].canReview
                      <=> itemGate(transactions, items, item_reviews,
                                   tabs'[t].viewerId, tabs'[t].item.id))
          /\ (chatFinalize(t) /\ tabs[t].tx.type = "rent")
                => \A v \in Viewers :
                      ~loadItemReviews(transactions', item_reviews', tabs[t].item.id, v,
                                       reloadItem(items', tabs[t].item.id))
          /\ markReturned(t, TRUE)
                => /\ tabs'[t].canReview
                        <=> itemGate(transactions', items', item_reviews',
                                     tabs[t].viewerId, tabs[t].item.id)
                   /\ \A v \in Viewers :
                         loadItemReviews(transactions', item_reviews', tabs[t].item.id, v,
                                         reloadItem(items', tabs[t].item.id))
                            <=> (/\ completedRentAsBuyer(v, tabs[t].item.id)
                                 /\ ~\E k \in DOMAIN item_reviews :
                                        /\ item_reviews[k].item_id = tabs[t].item.id
                                        /\ item_reviews[k].reviewer_id = v)
          /\ (\E r \in Ratings : submitItemReview(t, r, TRUE))
                => /\ ~tabs'[t].canReview
                   /\ \E k \in DOMAIN item_reviews' :
                         /\ item_reviews'[k].item_id = tabs[t].item.id
                         /\ item_reviews'[k].reviewer_id = tabs[t].viewerId]_vars

\* The renter has reviewed the item after the rental was finalized and the
\* item returned, and the page's gate is false again.
C16_Witness ==
    /\ messageSent("finalized")
    /\ items["i1"].status = "available"
    /\ \E t \in Tabs :
          /\ tabs[t].page = "item" /\ tabs[t].viewerId = "u2" /\ ~tabs[t].canReview
          /\ \E k \in DOMAIN item_reviews : item_reviews[k].reviewer_id = "u2"

\* The rows of an item-review table for a pair, and of a user-review table.
itemReviewRows(revs, itemId, v) ==
    {k \in DOMAIN revs : revs[k].item_id = itemId /\ revs[k].reviewer_id = v}
userReviewRows(revs, v, o) ==
    {k \in DOMAIN revs : revs[k].reviewer_id = v /\ revs[k].reviewed_user_id = o}

\* C17: on every page that submits a review, a submission leaves exactly one
\* row for the pair, holding the rating just submitted, whether or not the
\* pair had a row before.
C17_ResubmitUpdates ==
    [][\A t \in Tabs, r \in Ratings :
          /\ (submitItemReview(t, r, TRUE) \/ submitReview(t, r, TRUE))
                => LET rows == itemReviewRows(item_reviews', tabs[t].item.id, tabs[t].viewerId)
                   IN  /\ Cardinality(rows) = 1
                       /\ \A k \in rows : item_reviews'[k].rating = r
          /\ saveReview(t, r, TRUE)
                => LET rows == userReviewRows(user_reviews', tabs[t].viewerId, tabs[t].profileId)
                   IN  /\ Cardinality(rows) = 1
                       /\ \A k \in rows : user_reviews'[k].rating = r]_vars

\* C18: a user never reviews themselves: saveReview on one's own profile
\* writes nothing, and no row of user_reviews has reviewer_id equal to
\* reviewed_user_id, whatever transactions exist.
C18_NoSelfReview ==
    /\ \A k \in DOMAIN user_reviews :
          user_reviews[k].reviewer_id # user_reviews[k].reviewed_user_id
    /\ \A t \in Tabs, r \in Ratings :
          (tabs[t].page = "profile" /\ tabs[t].viewerId = tabs[t].profileId)
             => /\ saveReviewEffect(tabs[t], r, TRUE) = user_reviews
                /\ ~ENABLED saveReview(t, r, TRUE)

\* u2 on their own profile, with a completed transaction of theirs in the
\* store and a review of the owner already written.
C18_Witness ==
    /\ tabs["t1"].page = "profile"
    /\ tabs["t1"].viewerId = "u2" /\ tabs["t1"].profileId = "u2"
    /\ completedBetween("u2", ItemOwner)
    /\ \E k \in DOMAIN user_reviews : user_reviews[k].reviewer_id = "u2"

\* The conversations about an item (or about none) between two users, in
\* either order.
rowsFor(convs, itemId, a, b) ==
    {c \in DOMAIN convs :
        convs[c].item_id = itemId /\ {convs[c].user_a, convs[c].user_b} = {a, b}}

\* A step of openChatAndSendPreset in tab t, standing at await k.
openChatAt(t, k) ==
    /\ tabs[t].step = k
    /\ \E at \in ClientTimes, okConv, okMsg \in BOOLEAN : openChatSteps(t, at, okConv, okMsg)

\* A get-or-create outcome as C19 states it: with a row for the item and
\* the pair the table is left alone and one of those rows is the result;
\* without one, exactly one row is added and is the result.
getOrCreateOutcome(itemId, a, b, result) ==
    LET found == rowsFor(conversations, itemId, a, b)
    IN  IF found # {}
        THEN conversations' = conversations /\ result \in found
        ELSE /\ conversations' = insertConversation(conversations, itemId, a, b,
                                                    conversations'[result].last_message_at)
             /\ result = Len(conversations) + 1

\* C19: getting or creating the conversation for (item or none, a, b)
\* returns an existing row and inserts nothing whenever at least one row
\* exists for the item and the unordered pair, and inserts exactly one row
\* only when none exists; a row of another item, or of none, is never the
\* result.
C19_GetOrCreate ==
    [][\A t \in Tabs :
          /\ openChatAt(t, <<>>)
                => LET found == rowsFor(conversations, tabs[t].item.id, tabs[t].viewerId,
                                        tabs[t].item.owner_id)
                   IN  IF found # {}
                       THEN /\ tabs'[t].convo \in found
                            /\ tabs'[t].step = <<"openChatAndSendPreset", "message">>
                       ELSE tabs'[t].step = <<"openChatAndSendPreset", "insert">>
          /\ (openChatAt(t, <<"openChatAndSendPreset", "insert">>) /\ roomConv)
                => /\ Len(conversations') = Len(conversations) + 1
                   /\ tabs'[t].convo = Len(conversations')
          /\ (\E at \in ClientTimes : messageOwner(t, at, TRUE))
                => getOrCreateOutcome(tabs[t].item.id, tabs[t].viewerId,
                                      tabs[t].item.owner_id, tabs'[t].convo)
          /\ (\E at \in ClientTimes : messageUser(t, at, TRUE))
                => getOrCreateOutcome("none", tabs[t].viewerId, tabs[t].profileId,
                                      tabs'[t].convo)]_vars

\* The messages of a conversation, as row numbers.
messagesOf(c) == {k \in DOMAIN messages : messages[k].conversation_id = c}

\* What the race may leave and what the chat pages read back.
C20_Outcome ==
    /\ Len(conversations) <= 2
    /\ \A c \in DOMAIN conversations :
          /\ conversations[c].item_id = "i1"
          /\ {conversations[c].user_a, conversations[c].user_b} = {"u2", ItemOwner}
    /\ \A k \in DOMAIN messages :
          Cardinality({c \in DOMAIN conversations :
                          \E l \in reloadMessages(messages, c) : \E i \in DOMAIN l : l[i] = k}) = 1
    /\ \A c \in DOMAIN conversations :
          /\ reloadMessages(messages, c) # {}
          /\ \A l \in reloadMessages(messages, c) :
                /\ {l[i] : i \in DOMAIN l} = messagesOf(c)
                /\ Len(l) = Cardinality(messagesOf(c))
                /\ \A i, j \in DOMAIN l :
                      i < j => messages[l[i]].created_at <= messages[l[j]].created_at

\* C20: two sessions racing to create the first conversation for the item
\* and the pair leave one row or two duplicate rows; no lookup and no write
\* of theirs fails (a write is refused only by a full table), every message
\* belongs to exactly one conversation, and each conversation's messages
\* are read back in created_at order.
C20_FirstContactRace ==
    /\ []C20_Outcome
    /\ [][\A t \in Tabs :
             /\ openChatAt(t, <<>>)
                   => Cardinality(rowsFor(conversations, tabs[t].item.id, tabs[t].viewerId,
                                          tabs[t].item.owner_id)) <= 1
             /\ (openChatAt(t, <<"openChatAndSendPreset", "insert">>) /\ roomConv)
                   => Len(conversations') = Len(conversations) + 1
             /\ (openChatAt(t, <<"openChatAndSendPreset", "message">>) /\ roomMsg)
                   => /\ Len(messages') = Len(messages) + 1
                      /\ messages'[Len(messages')].conversation_id = tabs[t].convo
             /\ openChatAt(t, <<"openChatAndSendPreset", "touch">>)
                   => tabs'[t].page = "chat" /\ tabs'[t].convo = tabs[t].convo
             /\ ((\E at \in ClientTimes : send(t, at, TRUE)) /\ roomMsg)
                   => /\ Len(messages') = Len(messages) + 1
                      /\ messages'[Len(messages')].conversation_id = tabs[t].convo]_vars

\* Both sessions have arrived on their chat pages, each with a conversation
\* of its own, and one conversation holds a message that was inserted
\* after another one with a later created_at.
C20_Witness ==
    /\ Len(conversations) = 2
    /\ tabs["t1"].page = "chat" /\ tabs["t2"].page = "chat"
    /\ tabs["t1"].convo # tabs["t2"].convo
    /\ \E k, m \in DOMAIN messages :
          /\ k < m /\ messages[k].conversation_id = messages[m].conversation_id
          /\ messages[k].created_at > messages[m].created_at

\* The active (pending or accepted) transactions of an item.
activeTx(itemId) ==
    {k \in DOMAIN transactions :
        /\ transactions[k].item_id = itemId
        /\ transactions[k].status \in {"pending", "accepted"}}

\* C21: at every moment an item has at most one active (pending or
\* accepted) transaction, also with several conversations about the item.
C21_OneActivePerItem ==
    \A i \in ItemIds : Cardinality(activeTx(i)) <= 1

\* The latest completed transaction of an item (by completed_at; the row
\* inserted last among equals).
latestCompleted(itemId) ==
    LET done == {k \in DOMAIN transactions :
                    transactions[k].item_id = itemId /\ transactions[k].status = "completed"}
        newest == {k \in done : \A m \in done :
                      transactions[m].completed_at <= transactions[k].completed_at}
    IN  IF done = {} THEN 0 ELSE Max(newest)

\* C26: with every handler run to its end and every status write served,
\* an item with an accepted transaction has status reserved, and an item
\* whose latest completed transaction is a sale has status sold, whatever
\* the order in which the transactions of several conversations about the
\* item were accepted, cancelled or finalized.
C26_ItemStatusFollowsTransactions ==
    \A i \in ItemIds :
        /\ (\E k \in DOMAIN transactions :
               transactions[k].item_id = i /\ transactions[k].status = "accepted")
              => items[i].status = "reserved"
        /\ (latestCompleted(i) # 0 /\ transactions[latestCompleted(i)].type = "sell")
              => items[i].status = "sold"

\* C27: once Finalize of a sale has left the item sold, no Accept, Deny,
\* Cancel, Finalize or Mark Returned on a transaction of that item takes
\* the item's status away from sold.
C27_SoldIsFinal ==
    [][\A i \in ItemIds :
          (/\ items[i].status = "sold"
           /\ \E k \in DOMAIN transactions :
                 /\ transactions[k].item_id = i /\ transactions[k].type = "sell"
                 /\ transactions[k].status = "completed"
           /\ \E t \in Tabs : \/ anyAccept(t) \/ anyDeny(t) \/ anyCancel(t) \/ anyFinalize(t)
                              \/ markReturned(t, TRUE))
             => items'[i].status = "sold"]_vars

\* C22: no conversation ever has more than one transaction row, also when
\* the buyer has the chat open in two sessions and after the transaction
\* has been denied, cancelled or completed.
C22_OneTransactionPerConversation ==
    \A c \in DOMAIN conversations :
        Cardinality({k \in DOMAIN transactions : transactions[k].conversation_id = c}) <= 1

\* C23: while a transition handler of a session is in flight, no other
\* transition handler is started in that session.
C23_OneHandlerPerSession ==
    [][\A t \in Tabs :
          tabs[t].step # <<>>
             => ~(\/ anyAccept(t) \/ anyDeny(t) \/ anyCancel(t) \/ anyFinalize(t)
                  \/ \E okTx, okMsg, okTouch \in BOOLEAN : createRequest(t, okTx, okMsg, okTouch))]_vars

keptRows(old, new) == {k \in DOMAIN old : k \in DOMAIN new /\ new[k] = old[k]}

\* C25: messages are append-only and transactions are never deleted but by
\* deleteAccount: every other operation leaves each message row as it is
\* and deletes no transaction row; deleteAccount removes the transactions
\* the user takes part in as buyer or seller or that are about an item of
\* theirs, and the messages the user sent, and no other row of the two
\* tables.
C25_AppendOnly ==
    [][\A t \in Tabs :
          IF deleteAccount(t)
          THEN LET uid == tabs[t].viewerId
               IN  /\ DOMAIN transactions' = DOMAIN transactions
                   /\ DOMAIN messages' = DOMAIN messages
                   /\ \A k \in DOMAIN transactions :
                         IF \/ transactions[k].buyer_id = uid
                            \/ transactions[k].seller_id = uid
                            \/ /\ transactions[k].item_id \in DOMAIN items
                               /\ items[transactions[k].item_id].owner_id = uid
                         THEN transactions'[k] = DeletedTx
                         ELSE transactions'[k] = transactions[k]
                   /\ \A k \in DOMAIN messages :
                         IF messages[k].sender_id = uid
                         THEN messages'[k] = DeletedMsg
                         ELSE messages'[k] = messages[k]
          ELSE (\A u \in Tabs : ~deleteAccount(u))
                  => /\ keptRows(messages, messages') = DOMAIN messages
                     /\ Len(transactions') >= Len(transactions)
                     /\ \A k \in DOMAIN transactions :
                           transactions[k] # DeletedTx => transactions'[k] # DeletedTx]_vars

\* The buyer's account is gone: their transaction and their message are
\* deleted, the owner's message in the same conversation is still there.
C25_Witness ==
    /\ \E k \in DOMAIN transactions : transactions[k] = DeletedTx
    /\ \E k \in DOMAIN messages : messages[k] = DeletedMsg
    /\ \E k \in DOMAIN messages : messages[k].sender_id = ItemOwner
    /\ \E c \in DOMAIN conversations : conversations[c] = DeletedConv

\* C28: in every reachable state a transaction has completed_at set if and
\* only if its status is completed.
C28_CompletedAtIffCompleted ==
    \A k \in DOMAIN transactions :
        (transactions[k].completed_at # 0) <=> (transactions[k].status = "completed")

\* A chat page of tab t has just run reloadMessages: it was opened, or it
\* sent a message, or its timer fired.
reloaded(t) ==
    \/ \E v \in Viewers, c \in DOMAIN conversations : OpenChatPage(t, v, c)
    \/ \E at \in {clock, clock + 1} : send(t, at, roomMsg)
    \/ pollMessages(t)

unreadNow(u, c) == isConversationUnread(convo_read_at, u, c, conversations[c].last_message_at)
unreadNext(u, c) == isConversationUnread(convo_read_at', u, c, conversations'[c].last_message_at)

\* C29: once a user's chat page has loaded the messages of a conversation
\* and marked it read with the newest message's created_at, the conversation
\* is not unread for that user, and it stays so while no message is
\* inserted; a conversation with a null last_message_at is never unread; a
\* conversation with a last_message_at and no read mark is unread.
C29_ReadUntilNextMessage ==
    /\ [][\A t \in Tabs :
             (reloaded(t) /\ lastAt(messages', tabs'[t].convo) # 0)
                => ~unreadNext(tabs'[t].viewerId, tabs'[t].convo)]_vars
    /\ [][\A u \in Viewers, c \in DOMAIN conversations :
             (/\ readAt(convo_read_at, u, c) # 0
              /\ readAt(convo_read_at, u, c) = lastAt(messages, c)
              /\ ~unreadNow(u, c)
              /\ messages' = messages)
                => ~unreadNext(u, c)]_vars
    /\ [](\A u \in Viewers, c \in DOMAIN conversations :
             /\ ~isConversationUnread(convo_read_at, u, c, 0)
             /\ (readAt(convo_read_at, u, c) = 0 /\ conversations[c].last_message_at # 0)
                   => unreadNow(u, c))
====
